---- MODULE Spec2Model ----
(***************************************************************************)
(* Route assembly of src/src/algorithm.py: is_valid, _expand_path,         *)
(* _baseline_admissible_path and run, over a weighted undirected graph     *)
(* with origin node 0.                                                     *)
(*                                                                         *)
(* A waypoint is <<node, quantity>>; a path is a sequence of waypoints.    *)
(* Quantities are naturals: Python compares 0 == 0.0 and (0, 0) ==         *)
(* (0, 0.0) as equal, and float(g) of a small integer g equals g, so the   *)
(* int/float distinction of the source never changes a comparison.         *)
(* A call that may raise returns a record [exc, val]: exc = NoExc when it  *)
(* returns normally, otherwise the name of the exception that escapes.     *)
(***************************************************************************)
EXTENDS Naturals, Sequences, FiniteSets, TLC

\* Node ids are 0 .. MaxNode; the graph's node set is a subset holding 0.
MaxNode == 2
\* Edge attribute "dist" ranges over 1 .. MaxDist.
MaxDist == 2
\* Node attribute "gold", when present, ranges over 1 .. MaxGold.
MaxGold == 1
\* The planner returns at most MaxTrips trips of at most MaxStops stops,
\* each pickup in 0 .. MaxPickup.
MaxTrips == 2
MaxStops == 3
MaxPickup == 1

VARIABLES
    nodes,   \* G.nodes: the node ids of problem.graph
    dist,    \* G.edges with their "dist": a function on 2-element node sets
    gold,    \* the "gold" node attribute, defined on the nodes that carry it
    sp,      \* the answers of nx.shortest_path on this graph, per (a, b)
    pc,      \* "idle" before the call, then the name of the call that ended
    trips,   \* sol.trips of the call: a sequence of [stops, pickups]
    ret      \* the outcome of the call: [exc, val]

vars == <<nodes, dist, gold, sp, pc, trips, ret>>

Origin == 0
NoExc == "none"
Ids == 0 .. MaxNode

----------------------------------------------------------------------------
\* The graph and networkx

\* G.has_edge(a, b) on an undirected simple graph.
has_edge(a, b) == a # b /\ {a, b} \in DOMAIN dist

\* G.number_of_nodes()
number_of_nodes == Cardinality(nodes)

\* Sequences over S of length lo .. hi.
SeqsOf(S, lo, hi) == UNION {[1 .. n -> S] : n \in lo .. hi}

\* The simple walks of the graph with node set N and edge function d.
IsSimplePath(p, d) ==
    /\ \A i, j \in 1 .. Len(p) : i # j => p[i] # p[j]
    /\ \A i \in 1 .. Len(p) - 1 : {p[i], p[i + 1]} \in DOMAIN d

RECURSIVE PathDist(_, _)
PathDist(p, d) ==
    IF Len(p) < 2 THEN 0
    ELSE d[{p[1], p[2]}] + PathDist(Tail(p), d)

SimplePaths(N, d, a, b) ==
    {p \in SeqsOf(N, 2, Cardinality(N)) :
        p[1] = a /\ p[Len(p)] = b /\ IsSimplePath(p, d)}

\* The minimum-"dist" paths from a to b: the results Dijkstra may return.
\* Which of several equally short paths it returns depends on the order in
\* which the edges were inserted, so every one of them is a possible answer.
MinPaths(N, d, a, b) ==
    LET all == SimplePaths(N, d, a, b)
    IN  {p \in all : \A q \in all : PathDist(p, d) <= PathDist(q, d)}

\* What nx.shortest_path can answer for (a, b), a # b, both in the graph:
\* one of the minimum paths, or <<>> standing for NetworkXNoPath.
SpOptions(N, d, a, b) ==
    IF MinPaths(N, d, a, b) = {} THEN {<<>>} ELSE MinPaths(N, d, a, b)

RECURSIVE SpChoices(_, _, _)
SpChoices(N, d, pairs) ==
    IF pairs = {} THEN {<<>>}
    ELSE LET pr == CHOOSE x \in pairs : TRUE
         IN  {(pr :> o) @@ f :
                 o \in SpOptions(N, d, pr[1], pr[2]),
                 f \in SpChoices(N, d, pairs \ {pr})}

\* nx.shortest_path(G, a, b, weight="dist")
shortest_path(a, b) ==
    IF a \notin nodes \/ b \notin nodes
    THEN [exc |-> "NodeNotFound", val |-> <<>>]
    ELSE IF a = b THEN [exc |-> NoExc, val |-> <<a>>]
    ELSE IF sp[<<a, b>>] = <<>> THEN [exc |-> "NetworkXNoPath", val |-> <<>>]
    ELSE [exc |-> NoExc, val |-> sp[<<a, b>>]]

\* G.nodes[i].get("gold", 0); G.nodes[i] raises KeyError for an absent node.
NodeGold(i) ==
    IF i \notin nodes THEN [exc |-> "KeyError", val |-> 0]
    ELSE [exc |-> NoExc, val |-> IF i \in DOMAIN gold THEN gold[i] ELSE 0]

----------------------------------------------------------------------------
\* is_valid(problem, path)

is_valid(path) ==
    IF path = <<>> THEN FALSE
    ELSE IF path[1][1] # 0 /\ ~has_edge(0, path[1][1]) THEN FALSE
    ELSE \A i \in 1 .. Len(path) - 1 : has_edge(path[i][1], path[i + 1][1])

----------------------------------------------------------------------------
\* _expand_path(problem, stops, pickups)

\* Segment with the inner loop started at j = 0 instead of 1: the node the
\* previous segment ended on is emitted again.
SegmentFromStart(i, full, gold_a, gold_b) ==
    (IF i = 1 THEN <<<<full[1], gold_a>>>> ELSE <<>>)
    \o [j \in 1 .. Len(full) |->
           <<full[j], IF j = Len(full) THEN gold_b ELSE 0>>]

\* The waypoints one iteration appends for the shortest path full.
Segment(i, full, gold_a, gold_b) ==
    (IF i = 1 THEN <<<<full[1], gold_a>>>> ELSE <<>>)
    \o [j \in 1 .. Len(full) - 1 |->
           <<full[j + 1], IF j + 1 = Len(full) THEN gold_b ELSE 0>>]

\* The except clause with nx.NodeNotFound left out.
ExpandCaughtNoPathOnly == {"NetworkXNoPath"}

\* except (nx.NetworkXNoPath, nx.NodeNotFound): return []
ExpandCaught == {"NetworkXNoPath", "NodeNotFound"}

RECURSIVE ExpandLoop(_, _, _, _)
ExpandLoop(stops, pickups, i, out) ==
    IF i > Len(stops) - 1 THEN [exc |-> NoExc, val |-> out]
    ELSE LET r == shortest_path(stops[i], stops[i + 1])
         IN  IF r.exc \in ExpandCaught THEN [exc |-> NoExc, val |-> <<>>]
             ELSE IF r.exc # NoExc THEN [exc |-> r.exc, val |-> <<>>]
             ELSE ExpandLoop(stops, pickups, i + 1,
                      out \o Segment(i, r.val, pickups[i], pickups[i + 1]))

_expand_path(stops, pickups) == ExpandLoop(stops, pickups, 1, <<>>)

----------------------------------------------------------------------------
\* _baseline_admissible_path(problem)

\* The waypoints the loop body appends for node i once both paths exist.
RoundTrip(i, path_0_i, path_i_0, g) ==
    [j \in 1 .. Len(path_0_i) - 1 |-> <<path_0_i[j + 1], 0>>]
    \o <<<<i, g>>>>
    \o [j \in 1 .. Len(path_i_0) - 1 |-> <<path_i_0[j + 1], 0>>]

\* except (nx.NetworkXNoPath, nx.NodeNotFound): continue
BaselineCaught == {"NetworkXNoPath", "NodeNotFound"}

RECURSIVE BaselineLoop(_, _)
BaselineLoop(i, out) ==
    IF i > number_of_nodes - 1
    THEN [exc |-> NoExc, val |-> out \o <<<<0, 0>>>>]
    ELSE LET a == shortest_path(0, i)
             b == shortest_path(i, 0)
             g == NodeGold(i)
         IN  IF a.exc \in BaselineCaught THEN BaselineLoop(i + 1, out)
             ELSE IF a.exc # NoExc THEN [exc |-> a.exc, val |-> <<>>]
             ELSE IF b.exc \in BaselineCaught THEN BaselineLoop(i + 1, out)
             ELSE IF b.exc # NoExc THEN [exc |-> b.exc, val |-> <<>>]
             ELSE IF g.exc # NoExc THEN [exc |-> g.exc, val |-> <<>>]
             ELSE BaselineLoop(i + 1, out \o RoundTrip(i, a.val, b.val, g.val))

_baseline_admissible_path == BaselineLoop(1, <<<<0, 0>>>>)

----------------------------------------------------------------------------
\* run(problem_instance)

\* Assemble without the closing (0, 0) of lines 115-116.
AssembleNoClose(path) ==
    IF path = <<>> THEN _baseline_admissible_path
    ELSE IF ~is_valid(path) THEN _baseline_admissible_path
    ELSE [exc |-> NoExc, val |-> path]

\* Lines 111-121: the fallback for an empty path, the closing (0, 0) and the
\* final admissibility check.
Assemble(path) ==
    IF path = <<>> THEN _baseline_admissible_path
    ELSE LET closed == IF path[Len(path)] # <<0, 0>>
                       THEN Append(path, <<0, 0>>)
                       ELSE path
         IN  IF ~is_valid(closed) THEN _baseline_admissible_path
             ELSE [exc |-> NoExc, val |-> closed]

\* The trip loop with "continue" in place of the fallback of lines 107-108:
\* a trip that fails to expand is skipped and the others are kept.
RECURSIVE TripLoopSkip(_, _, _)
TripLoopSkip(tr, k, path) ==
    IF k > Len(tr) THEN Assemble(path)
    ELSE LET segment == _expand_path(tr[k].stops, tr[k].pickups)
         IN  IF segment.exc # NoExc THEN [exc |-> segment.exc, val |-> <<>>]
             ELSE IF segment.val = <<>> THEN TripLoopSkip(tr, k + 1, path)
             ELSE TripLoopSkip(tr, k + 1, path \o segment.val)

\* Lines 100-109: for trip in sol.trips.
RECURSIVE TripLoop(_, _, _)
TripLoop(tr, k, path) ==
    IF k > Len(tr) THEN Assemble(path)
    ELSE LET segment == _expand_path(tr[k].stops, tr[k].pickups)
         IN  IF segment.exc # NoExc THEN [exc |-> segment.exc, val |-> <<>>]
             ELSE IF segment.val = <<>> THEN _baseline_admissible_path
             ELSE TripLoop(tr, k + 1, path \o segment.val)

run(tr) ==
    IF tr = <<>> THEN _baseline_admissible_path
    ELSE TripLoop(tr, 1, <<>>)

----------------------------------------------------------------------------
\* Inputs

\* The trips a planner may return: stops and pickups of equal length >= 1.
TripsOfLen(n) ==
    {[stops |-> s, pickups |-> q] :
        s \in [1 .. n -> Ids], q \in [1 .. n -> 0 .. MaxPickup]}

Trips == UNION {TripsOfLen(n) : n \in 1 .. MaxStops}

Plans == SeqsOf(Trips, 0, MaxTrips)

NodePairs(N) == {e \in SUBSET N : Cardinality(e) = 2}

OrderedPairs(N) == {pr \in N \X N : pr[1] # pr[2]}

\* A problem instance: a graph holding the origin, with positive distances,
\* optional gold on the other nodes, and a consistent shortest-path oracle.
InitGraph ==
    /\ nodes \in {N \in SUBSET Ids : Origin \in N}
    /\ dist \in UNION {[E -> 1 .. MaxDist] : E \in SUBSET NodePairs(nodes)}
    /\ gold \in UNION {[S -> 1 .. MaxGold] : S \in SUBSET (nodes \ {Origin})}
    /\ sp \in SpChoices(nodes, dist, OrderedPairs(nodes))

Init ==
    /\ InitGraph
    /\ pc = "idle"
    /\ trips = <<>>
    /\ ret = [exc |-> NoExc, val |-> <<>>]

\* One call of run: the planner returns tr, run assembles the path.
Run ==
    /\ pc = "idle"
    /\ \E tr \in Plans :
          /\ trips' = tr
          /\ ret' = run(tr)
    /\ pc' = "run"
    /\ UNCHANGED <<nodes, dist, gold, sp>>

Next == Run

\* The instances run is checked on: every node other than the origin
\* carries gold; the optional attribute is exercised by SpecBaseline, the
\* only place that reads it.
InitRun == Init /\ DOMAIN gold = nodes \ {Origin}

Spec == InitRun /\ [][Next]_vars

\* One call of _expand_path on the stops and pickups of one trip.
Expand ==
    /\ pc = "idle"
    /\ \E t \in Trips :
          /\ trips' = <<t>>
          /\ ret' = _expand_path(t.stops, t.pickups)
    /\ pc' = "expand"
    /\ UNCHANGED <<nodes, dist, gold, sp>>

NextExpand == Expand

SpecExpand == Init /\ [][NextExpand]_vars

\* One call of _baseline_admissible_path.
Baseline ==
    /\ pc = "idle"
    /\ ret' = _baseline_admissible_path
    /\ pc' = "baseline"
    /\ UNCHANGED <<nodes, dist, gold, sp, trips>>

NextBaseline == Baseline

SpecBaseline == Init /\ [][NextBaseline]_vars

----------------------------------------------------------------------------
\* Vocabulary of the properties

\* The last waypoint of a non-empty path.
Last(path) == path[Len(path)]

RECURSIVE SumQty(_)
SumQty(path) == IF path = <<>> THEN 0 ELSE path[1][2] + SumQty(Tail(path))

RECURSIVE SumSeq(_)
SumSeq(q) == IF q = <<>> THEN 0 ELSE q[1] + SumSeq(Tail(q))

RECURSIVE SumPickups(_)
SumPickups(tr) ==
    IF tr = <<>> THEN 0 ELSE SumSeq(tr[1].pickups) + SumPickups(Tail(tr))

\* The expansion of the k-th trip of the call.
Expansion(k) == _expand_path(trips[k].stops, trips[k].pickups)

AllExpand == \A k \in 1 .. Len(trips) : Expansion(k).val # <<>>

\* b can be reached from a along edges of the graph, both being nodes of it.
Connected(a, b) ==
    /\ a \in nodes
    /\ b \in nodes
    /\ a = b \/ SimplePaths(nodes, dist, a, b) # {}

\* The least total "dist" of a path from a to b, for Connected(a, b).
MinDist(a, b) ==
    IF a = b THEN 0
    ELSE LET m == CHOOSE q \in MinPaths(nodes, dist, a, b) : TRUE
         IN  PathDist(m, dist)

\* The nodes of out[lo .. hi].
NodesOf(out, lo, hi) == [j \in 1 .. hi - lo + 1 |-> out[lo + j - 1][1]]

\* Every consecutive pair of waypoints is joined by a direct edge.
Linked(out) ==
    \A j \in 1 .. Len(out) - 1 : has_edge(out[j][1], out[j + 1][1])

\* The positions 1 = p[1] <= ... <= p[n] = Len(out) of the stops in out.
StopPositions(out, n) ==
    {p \in [1 .. n -> 1 .. Len(out)] :
        /\ p[1] = 1
        /\ p[n] = Len(out)
        /\ \A k \in 1 .. n - 1 : p[k] <= p[k + 1]}

----------------------------------------------------------------------------
\* Properties of run (specification Spec)

\* C1: every path run returns is admissible: is_valid holds of it.
C1_ReturnedPathAdmissible ==
    (pc = "run" /\ ret.exc = NoExc) => is_valid(ret.val)

\* C2: run never raises and never returns an empty path, whatever the
\* planner returned (single-stop trips, absent or unreachable stops).
C2_RunTotal ==
    pc = "run" => (ret.exc = NoExc /\ ret.val # <<>>)

\* C2 witness: run returned after a first trip that expands and a second
\* trip naming a stop that is not a node of the graph.
C2_Witness ==
    /\ pc = "run"
    /\ Len(trips) = 2
    /\ Expansion(1).val # <<>>
    /\ \E j \in 1 .. Len(trips[2].stops) : trips[2].stops[j] \notin nodes
    /\ ret.exc = NoExc
    /\ ret.val # <<>>

\* C3: the last waypoint of every returned path is (origin, 0).
C3_EndsAtOrigin ==
    pc = "run" => (ret.val # <<>> /\ Last(ret.val) = <<Origin, 0>>)

\* C3 witness: run returned the assembled path of a plan whose last stop is
\* not the origin, so the closing waypoint had to be appended.
C3_Witness ==
    /\ pc = "run"
    /\ trips # <<>>
    /\ AllExpand
    /\ Last(Last(trips).stops) # Origin
    /\ ret.val # _baseline_admissible_path.val
    /\ Last(ret.val) = <<Origin, 0>>

\* C4: when every trip expands, the quantities of the returned path sum to
\* the planner's pickups.
C4_QuantityConserved ==
    (pc = "run" /\ trips # <<>> /\ AllExpand)
        => SumQty(ret.val) = SumPickups(trips)

\* C6: with no trips, or with a trip whose expansion is empty, run returns
\* exactly the baseline path.
C6_NoPartialResult ==
    (pc = "run" /\ (trips = <<>> \/ ~AllExpand))
        => ret = _baseline_admissible_path

\* C6 witness: the first trip expanded to a segment, the second did not,
\* and run returned the baseline path.
C6_Witness ==
    /\ pc = "run"
    /\ Len(trips) = 2
    /\ Len(Expansion(1).val) >= 3
    /\ Expansion(2).val = <<>>
    /\ ret = _baseline_admissible_path

\* A trip that starts and ends at the origin with pickup 0 there, moves at
\* least once, never repeats a stop in a row and joins connected stops.
WellFormedTrip(t) ==
    LET n == Len(t.stops)
    IN  /\ n >= 2
        /\ t.stops[1] = Origin /\ t.stops[n] = Origin
        /\ t.pickups[1] = 0 /\ t.pickups[n] = 0
        /\ \A i \in 1 .. n - 1 :
              /\ t.stops[i] # t.stops[i + 1]
              /\ Connected(t.stops[i], t.stops[i + 1])

RECURSIVE Concatenation(_)
Concatenation(k) ==
    IF k = 0 THEN <<>> ELSE Concatenation(k - 1) \o Expansion(k).val

\* The trips' expansions in order, with (origin, 0) appended if not last.
ClosedConcatenation ==
    LET c == Concatenation(Len(trips))
    IN  IF Last(c) = <<Origin, 0>> THEN c ELSE Append(c, <<Origin, 0>>)

\* C10: a well-formed plan of one or more trips is returned as the
\* concatenation of its expansions, not replaced by the baseline path.
C10_WellFormedPlanUsed ==
    (pc = "run" /\ trips # <<>>
        /\ \A k \in 1 .. Len(trips) : WellFormedTrip(trips[k]))
        => ret.val = ClosedConcatenation

----------------------------------------------------------------------------
\* Properties of _expand_path (specification SpecExpand)

\* C7: in a successful expansion of n >= 2 stops each stop owns one
\* waypoint, in order, first and last included, carrying its pickup, and
\* every other waypoint carries 0.
C7_PickupPlacedOnce ==
    (pc = "expand" /\ Len(trips[1].stops) >= 2 /\ ret.val # <<>>)
        => LET t == trips[1]
               n == Len(t.stops)
               out == ret.val
           IN  \E p \in StopPositions(out, n) :
                   /\ \A k \in 1 .. n - 1 : p[k] < p[k + 1]
                   /\ \A k \in 1 .. n : out[p[k]] = <<t.stops[k], t.pickups[k]>>
                   /\ \A j \in 1 .. Len(out) :
                         (\A k \in 1 .. n : p[k] # j) => out[j][2] = 0

\* C8: for n >= 2 stops the expansion is empty exactly when a stop is absent
\* or two consecutive stops are not connected; otherwise it runs from the
\* first stop to the last through the stops in order, along edges, each
\* stretch between two stops having the least total distance.
C8_ExpansionShape ==
    (pc = "expand" /\ Len(trips[1].stops) >= 2)
        => LET t == trips[1]
               n == Len(t.stops)
               out == ret.val
               fails == \E i \in 1 .. n - 1 :
                            ~Connected(t.stops[i], t.stops[i + 1])
           IN  /\ ret.exc = NoExc
               /\ (out = <<>>) <=> fails
               /\ ~fails =>
                     /\ out[1][1] = t.stops[1]
                     /\ Last(out)[1] = t.stops[n]
                     /\ Linked(out)
                     /\ \E p \in StopPositions(out, n) :
                           /\ \A k \in 1 .. n : out[p[k]][1] = t.stops[k]
                           /\ \A k \in 1 .. n - 1 :
                                 PathDist(NodesOf(out, p[k], p[k + 1]), dist)
                                     = MinDist(t.stops[k], t.stops[k + 1])

\* C8 witness: three distinct stops expanded through a transit node.
C8_Witness ==
    /\ pc = "expand"
    /\ Len(trips[1].stops) = 3
    /\ trips[1].stops[1] # trips[1].stops[2]
    /\ trips[1].stops[2] # trips[1].stops[3]
    /\ Len(ret.val) > 3

----------------------------------------------------------------------------
\* Properties of _baseline_admissible_path (specification SpecBaseline)

\* C5: the baseline path is admissible: is_valid holds of it.
C5_BaselineAdmissible ==
    pc = "baseline" => (ret.exc = NoExc /\ is_valid(ret.val))

\* The nodes other than the origin from which a round trip exists.
RoundTripNodes == {i \in nodes \ {Origin} : Connected(Origin, i)}

\* The round trip of node i with i emitted once: the origin-to-i path after
\* the origin, i carrying its gold, then the i-to-origin path after i.
VisitOnce(i) ==
    LET path_0_i == shortest_path(Origin, i).val
        path_i_0 == shortest_path(i, Origin).val
    IN  [j \in 1 .. Len(path_0_i) - 1 |->
            <<path_0_i[j + 1],
              IF j + 1 = Len(path_0_i) THEN NodeGold(i).val ELSE 0>>]
        \o [j \in 1 .. Len(path_i_0) - 1 |-> <<path_i_0[j + 1], 0>>]

RECURSIVE VisitsFrom(_)
VisitsFrom(S) ==
    IF S = {} THEN <<>>
    ELSE LET i == CHOOSE x \in S : \A y \in S : x <= y
         IN  VisitOnce(i) \o VisitsFrom(S \ {i})

\* C9: the baseline path is (origin, 0), the round trips of the reachable
\* nodes in ascending order with each node emitted once, and (origin, 0).
C9_BaselineStructure ==
    pc = "baseline"
        => ret.val = <<<<Origin, 0>>>> \o VisitsFrom(RoundTripNodes)
                         \o <<<<Origin, 0>>>>

====
